---- MODULE Spec2Model ----
(***************************************************************************)
(* The image download and optimisation script (download-images): probe for *)
(* the cwebp encoder, fetch the film list, and for every film download and *)
(* convert the poster and the banner, then write image-mapping.json and    *)
(* print a summary.  One action per handler, callback or await             *)
(* continuation of the script.                                             *)
(***************************************************************************)
EXTENDS Integers, Sequences, FiniteSets, TLC

\* ------------------------------------------------------------------ bounds
MaxFilms == 2       \* longest film list the API returns
MaxRuns  == 2       \* how often the script is invoked one after the other
MaxWork  == 4       \* films processed over all invocations of one behaviour

\* ------------------------------------------------------------ value spaces
Ids   == {"a", "b"}
NoId  == "<undefined>"          \* a list element that has no id property
Roles == {"poster", "banner"}

\* A list element as the script reads it: id, image and movie_banner; the
\* two URL fields are modelled by their truthiness (the test at the if).
FilmRecords == [id : Ids, image : BOOLEAN, movie_banner : BOOLEAN]
NonFilm     == [id |-> NoId, image |-> FALSE, movie_banner |-> FALSE]

RECURSIVE SeqsUpTo(_, _)
SeqsUpTo(S, n) ==
  IF n = 0 THEN {<<>>}
  ELSE LET shorter == SeqsUpTo(S, n - 1)
       IN  shorter \cup {Append(s, x) : s \in {t \in shorter : Len(t) = n - 1}, x \in S}

\* What GET {API_BASE}/films can answer.  kind is how the body parses:
\*   neterr  the request itself fails (fetch rejects)
\*   nonjson a body that response.json() cannot parse
\*   null, object, string, array  the JSON value the body parses to
\* ok is response.ok (a 2xx status), items the elements a for-of loop yields
\* (the characters of a string have no id, image or movie_banner).  main reads
\* neither the status nor response.ok, so an error answer is processed like
\* any other; its bodies are kept one element shorter.
ListResponses ==
       {[kind |-> "neterr", ok |-> FALSE, items |-> <<>>]}
  \cup {[kind |-> k, ok |-> s, items |-> <<>>] :
           k \in {"nonjson", "null", "object"}, s \in BOOLEAN}
  \cup {[kind |-> "string", ok |-> TRUE, items |-> <<NonFilm>>]}
  \cup {[kind |-> "array", ok |-> TRUE, items |-> l] :
           l \in SeqsUpTo(FilmRecords \cup {NonFilm}, MaxFilms)}
  \cup {[kind |-> "array", ok |-> FALSE, items |-> l] :
           l \in SeqsUpTo(FilmRecords, MaxFilms - 1)}
NoResponse == [kind |-> "none", ok |-> FALSE, items |-> <<>>]

\* -------------------------------------------------------------- JS helpers
Put(m, k, v) == [x \in (DOMAIN m) \cup {k} |-> IF x = k THEN v ELSE m[x]]
Remove(m, k) == [x \in (DOMAIN m) \ {k} |-> m[x]]
EmptyObject  == [x \in {} |-> ""]

\* `${filmId}` and imageMapping[filmId]: an undefined id becomes "undefined"
IdKey(id) == IF id = NoId THEN "undefined" ELSE id

\* path.join(IMAGES_DIR, `${filmId}-poster.jpg`), relative to IMAGES_DIR
TempName(key, r)  == key \o "-" \o r \o ".jpg"
\* path.join(IMAGES_DIR, `${filmId}-poster.webp`), relative to IMAGES_DIR
FinalName(key, r) == key \o "-" \o r \o ".webp"
\* LocalPath, had the temporary file's name been stored instead
LocalPath_Jpg(key, r) == "/images/" \o key \o "-" \o r \o ".jpg"
\* the value stored in the mapping: `/images/${filmId}-poster.webp`
LocalPath(key, r) == "/images/" \o key \o "-" \o r \o ".webp"

\* if (film.image) / if (film.movie_banner)
HasUrl(film, r) == IF r = "poster" THEN film.image ELSE film.movie_banner

\* Which list responses make the top-level try block throw before the loop
FetchRejects(resp) == resp.kind = "neterr"
JsonRejects(resp)  == resp.kind = "nonjson"
HasLength(resp)    == resp.kind # "null"                  \* films.length
Iterable(resp)     == resp.kind \in {"string", "array"}   \* for (const film of films)
ListThrows(resp) ==
  FetchRejects(resp) \/ JsonRejects(resp) \/ ~HasLength(resp) \/ ~Iterable(resp)

\* ------------------------------------------------------------------- state
VARIABLES
  pc,               \* position of main(): load, probe, fetch, loop, image,
                    \*   download, convert, converted, catch, write, summary, exited
  run,              \* number of the current invocation
  cwebp,            \* environment: the encoder is on the path
  listResponse,     \* environment: what the films endpoint answers
  outcome,          \* environment: what happened to image <<film index, role>>
  dirExists,        \* IMAGES_DIR exists
  disk,             \* files of IMAGES_DIR: name -> empty | partial | complete | webp
  mappingFile,      \* MAPPING_FILE: [exists, content]
  films,            \* const films
  idx,              \* 1-based index of the film the for-of loop is at
  role,             \* image role being processed for that film
  imageMapping,     \* const imageMapping
  downloadedCount,  \* let downloadedCount
  totalImages,      \* let totalImages
  http,             \* the request of downloadFile: idle, requested, piping, aborted, done
  promise,          \* the promise of downloadFile: none, pending, resolved, rejected
  exitCode,         \* process exit code, -1 while running
  netRequests,      \* network requests issued by this invocation
  conversions,      \* encoder invocations of this invocation
  writes,           \* writes of MAPPING_FILE by this invocation
  summary,          \* the printed summary line: [printed, downloaded, total]
  prevMapping       \* what the previous invocation wrote: [exists, content]

vars == <<pc, run, cwebp, listResponse, outcome, dirExists, disk, mappingFile,
          films, idx, role, imageMapping, downloadedCount, totalImages, http,
          promise, exitCode, netRequests, conversions, writes, summary, prevMapping>>

envVars  == <<cwebp, listResponse, outcome>>
loopVars == <<films, idx, role, imageMapping, downloadedCount, totalImages>>
histVars == <<netRequests, conversions, writes, summary, prevMapping>>

NoFile    == [exists |-> FALSE, content |-> EmptyObject]
NoSummary == [printed |-> FALSE, downloaded |-> 0, total |-> 0]

\* What an earlier invocation (against an older film list) may have left
StaleMapping ==
  [exists |-> TRUE,
   content |-> Put(Put(EmptyObject, "a", Put(Put(EmptyObject, "poster", LocalPath("a", "poster")),
                                             "banner", LocalPath("a", "banner"))),
                   "z", Put(EmptyObject, "poster", LocalPath("z", "poster")))]
StaleDisk ==
  Put(Put(Put(EmptyObject, FinalName("a", "poster"), "webp"),
          FinalName("z", "poster"), "webp"),
      TempName("a", "banner"), "complete")

Init ==
  /\ pc = "load"
  /\ run = 1
  /\ cwebp \in BOOLEAN
  /\ listResponse = NoResponse
  /\ outcome = EmptyObject
  /\ \/ dirExists = FALSE /\ disk = EmptyObject /\ mappingFile = NoFile
     \/ dirExists = TRUE  /\ disk = StaleDisk   /\ mappingFile = StaleMapping
  /\ films = <<>>
  /\ idx = 0
  /\ role = "poster"
  /\ imageMapping = EmptyObject
  /\ downloadedCount = 0
  /\ totalImages = 0
  /\ http = "idle"
  /\ promise = "none"
  /\ exitCode = -1
  /\ netRequests = 0
  /\ conversions = 0
  /\ writes = 0
  /\ summary = NoSummary
  /\ prevMapping = NoFile

\* ----------------------------------------------------------------- helpers
film   == films[idx]
filmId == IdKey(film.id)
slot   == <<idx, role>>

\* The first invocation meets the environment; later ones meet the same one.
Happens(o) ==
  IF run = 1 THEN outcome' = Put(outcome, slot, o)
  ELSE slot \in DOMAIN outcome /\ outcome[slot] = o /\ outcome' = outcome
MayHappen(os) ==
  run = 1 \/ (slot \in DOMAIN outcome /\ outcome[slot] \in os)

\* process.exit(code), or the event loop running empty (code 0)
Exit(code) == pc' = "exited" /\ exitCode' = code

\* The end of one image's block: on to the banner, or to the next film
Advance ==
  IF role = "poster" THEN pc' = "image" /\ role' = "banner"
  ELSE pc' = "loop" /\ role' = "poster"

\* ----------------------------------------------------------------- actions
\* if (!fs.existsSync(IMAGES_DIR)) fs.mkdirSync(IMAGES_DIR, ...)
EnsureImagesDir ==
  /\ pc = "load"
  /\ dirExists' = TRUE
  /\ pc' = "probe"
  /\ UNCHANGED <<run, envVars, disk, mappingFile, loopVars, http, promise,
                 exitCode, histVars>>

\* await execAsync("which cwebp") resolves
ProbeFound ==
  /\ pc = "probe"
  /\ cwebp
  /\ pc' = "fetch"
  /\ UNCHANGED <<run, envVars, dirExists, disk, mappingFile, loopVars, http,
                 promise, exitCode, histVars>>

\* ProbeMissing, had the catch only printed the message and gone on
ProbeMissing_Continues ==
  /\ pc = "probe"
  /\ ~cwebp
  /\ pc' = "fetch"
  /\ UNCHANGED <<run, envVars, dirExists, disk, mappingFile, loopVars, http,
                 promise, exitCode, histVars>>

\* await execAsync("which cwebp") rejects: process.exit(1)
ProbeMissing ==
  /\ pc = "probe"
  /\ ~cwebp
  /\ Exit(1)
  /\ UNCHANGED <<run, envVars, dirExists, disk, mappingFile, loopVars, http,
                 promise, histVars>>

\* NewImageMapping, had the accumulator started from the file on disk
PriorImageMapping == mappingFile.content

\* const imageMapping = {}
NewImageMapping == EmptyObject

\* fetch, response.json(), films.length, the three declarations, and the
\* start of the for-of loop; a throw goes to the outer catch: process.exit(1)
FetchList ==
  /\ pc = "fetch"
  /\ \E resp \in (IF run = 1 THEN ListResponses ELSE {listResponse}) :
       /\ listResponse' = resp
       /\ IF ListThrows(resp)
          THEN /\ Exit(1)
               /\ UNCHANGED loopVars
          ELSE /\ films' = resp.items
               /\ imageMapping' = NewImageMapping
               /\ downloadedCount' = 0
               /\ totalImages' = Len(resp.items) * 2
               /\ idx' = 0
               /\ role' = "poster"
               /\ pc' = "loop"
               /\ UNCHANGED exitCode
  /\ netRequests' = netRequests + 1
  /\ UNCHANGED <<run, cwebp, outcome, dirExists, disk, mappingFile, http, promise,
                 conversions, writes, summary, prevMapping>>

\* NextFilm, had the entry been created only for a film with an image URL
NextFilm_Lazy ==
  /\ pc = "loop"
  /\ idx < Len(films)
  /\ idx' = idx + 1
  /\ imageMapping' = IF films[idx + 1].image \/ films[idx + 1].movie_banner
                      THEN Put(imageMapping, IdKey(films[idx + 1].id), EmptyObject)
                      ELSE imageMapping
  /\ role' = "poster"
  /\ pc' = "image"
  /\ UNCHANGED <<run, envVars, dirExists, disk, mappingFile, films, downloadedCount,
                 totalImages, http, promise, exitCode, histVars>>

\* for (const film of films): const filmId = film.id; imageMapping[filmId] = {}
NextFilm ==
  /\ pc = "loop"
  /\ idx < Len(films)
  /\ idx' = idx + 1
  /\ imageMapping' = Put(imageMapping, IdKey(films[idx + 1].id), EmptyObject)
  /\ role' = "poster"
  /\ pc' = "image"
  /\ UNCHANGED <<run, envVars, dirExists, disk, mappingFile, films, downloadedCount,
                 totalImages, http, promise, exitCode, histVars>>

\* the for-of loop is exhausted
LoopDone ==
  /\ pc = "loop"
  /\ idx = Len(films)
  /\ pc' = "write"
  /\ UNCHANGED <<run, envVars, dirExists, disk, mappingFile, loopVars, http,
                 promise, exitCode, histVars>>

\* if (film.image) / if (film.movie_banner) is false
SkipImage ==
  /\ pc = "image"
  /\ ~HasUrl(film, role)
  /\ Advance
  /\ UNCHANGED <<run, envVars, dirExists, disk, mappingFile, films, idx,
                 imageMapping, downloadedCount, totalImages, http, promise,
                 exitCode, histVars>>

\* downloadFile(url, dest): fs.createWriteStream(dest) creates the file,
\* https.get sends the request; main awaits the promise
DownloadFile ==
  /\ pc = "image"
  /\ HasUrl(film, role)
  /\ disk' = Put(disk, TempName(filmId, role), "empty")
  /\ http' = "requested"
  /\ promise' = "pending"
  /\ netRequests' = netRequests + 1
  /\ pc' = "download"
  /\ UNCHANGED <<run, envVars, dirExists, mappingFile, loopVars, exitCode,
                 conversions, writes, summary, prevMapping>>

\* the response callback, statusCode === 200: response.pipe(file)
Response200 ==
  /\ pc = "download" /\ promise = "pending" /\ http = "requested"
  /\ MayHappen({"ok", "convfail", "reqerror", "aborted"})
  /\ http' = "piping"
  /\ UNCHANGED <<pc, run, envVars, dirExists, disk, mappingFile, loopVars, promise,
                 exitCode, histVars>>

\* the response callback, any other status: reject(new Error(...))
ResponseNot200 ==
  /\ pc = "download" /\ promise = "pending" /\ http = "requested"
  /\ Happens("status")
  /\ promise' = "rejected"
  /\ http' = "done"
  /\ UNCHANGED <<pc, run, cwebp, listResponse, dirExists, disk, mappingFile,
                 loopVars, exitCode, histVars>>

\* the request's "error" listener: fs.unlink(dest); reject(err).  The request
\* emits "error" for a failure before the response and for a socket error
\* while the body is streamed.
RequestError ==
  /\ pc = "download" /\ promise = "pending" /\ http \in {"requested", "piping"}
  /\ Happens("reqerror")
  /\ disk' = Remove(disk, TempName(filmId, role))
  /\ promise' = "rejected"
  /\ http' = "done"
  /\ UNCHANGED <<pc, run, cwebp, listResponse, dirExists, mappingFile, loopVars,
                 exitCode, histVars>>

\* file.on("finish"): file.close(); resolve()
FileFinish ==
  /\ pc = "download" /\ promise = "pending" /\ http = "piping"
  /\ MayHappen({"ok", "convfail"})
  /\ disk' = Put(disk, TempName(filmId, role), "complete")
  /\ promise' = "resolved"
  /\ http' = "done"
  /\ UNCHANGED <<pc, run, envVars, dirExists, mappingFile, loopVars, exitCode,
                 histVars>>

\* The connection closes before the body is complete.  The response stream is
\* destroyed without "end"; downloadFile listens neither to the response nor
\* to the file for this, so no callback of it runs and the file never finishes.
ResponseAborted ==
  /\ pc = "download" /\ promise = "pending" /\ http = "piping"
  /\ Happens("aborted")
  /\ disk' = Put(disk, TempName(filmId, role), "partial")
  /\ http' = "aborted"
  /\ UNCHANGED <<pc, run, cwebp, listResponse, dirExists, mappingFile, loopVars,
                 promise, exitCode, histVars>>

\* main() is called and not awaited: with the promise pending and nothing
\* left to wait for, the event loop runs empty and the process ends, code 0.
EventLoopDrained ==
  /\ pc = "download" /\ promise = "pending" /\ http = "aborted"
  /\ Exit(0)
  /\ UNCHANGED <<run, envVars, dirExists, disk, mappingFile, loopVars, http,
                 promise, histVars>>

\* await downloadFile(...) resumes: convertToWebP is called, execAsync(command)
DownloadResolved ==
  /\ pc = "download" /\ promise = "resolved"
  /\ conversions' = conversions + 1
  /\ pc' = "convert"
  /\ UNCHANGED <<run, envVars, dirExists, disk, mappingFile, loopVars, http,
                 promise, exitCode, netRequests, writes, summary, prevMapping>>

\* await downloadFile(...) throws into the image's catch block
DownloadRejected ==
  /\ pc = "download" /\ promise = "rejected"
  /\ pc' = "catch"
  /\ UNCHANGED <<run, envVars, dirExists, disk, mappingFile, loopVars, http,
                 promise, exitCode, histVars>>

\* convertToWebP: execAsync resolves; fs.unlinkSync(inputPath)
ConvertSucceeds ==
  /\ pc = "convert"
  /\ Happens("ok")
  /\ disk' = Remove(Put(disk, FinalName(filmId, role), "webp"), TempName(filmId, role))
  /\ pc' = "converted"
  /\ UNCHANGED <<run, cwebp, listResponse, dirExists, mappingFile, loopVars, http,
                 promise, exitCode, histVars>>

\* ConvertFails, had the catch of convertToWebP removed the input file
ConvertFails_Cleanup ==
  /\ pc = "convert"
  /\ Happens("convfail")
  /\ disk' = Remove(disk, TempName(filmId, role))
  /\ pc' = "catch"
  /\ UNCHANGED <<run, cwebp, listResponse, dirExists, mappingFile, loopVars,
                 http, promise, exitCode, histVars>>

\* convertToWebP: execAsync rejects; the catch logs and rethrows, and the
\* error arrives in the image's catch block of main
ConvertFails ==
  /\ pc = "convert"
  /\ Happens("convfail")
  /\ pc' = "catch"
  /\ UNCHANGED <<run, cwebp, listResponse, dirExists, disk, mappingFile, loopVars,
                 http, promise, exitCode, histVars>>

\* RecordImage, had the counter been left alone
RecordImage_NoCount ==
  /\ pc = "converted"
  /\ imageMapping' = Put(imageMapping, filmId,
                         Put(imageMapping[filmId], role, LocalPath(filmId, role)))
  /\ Advance
  /\ http' = "idle"
  /\ promise' = "none"
  /\ UNCHANGED <<run, envVars, dirExists, disk, mappingFile, films, idx,
                 downloadedCount, totalImages, exitCode, histVars>>

\* imageMapping[filmId].poster = `/images/${filmId}-poster.webp`; downloadedCount++
RecordImage ==
  /\ pc = "converted"
  /\ imageMapping' = Put(imageMapping, filmId,
                         Put(imageMapping[filmId], role, LocalPath(filmId, role)))
  /\ downloadedCount' = downloadedCount + 1
  /\ Advance
  /\ http' = "idle"
  /\ promise' = "none"
  /\ UNCHANGED <<run, envVars, dirExists, disk, mappingFile, films, idx,
                 totalImages, exitCode, histVars>>

\* catch (error) { console.error(...) } of one image
CatchImageError ==
  /\ pc = "catch"
  /\ Advance
  /\ http' = "idle"
  /\ promise' = "none"
  /\ UNCHANGED <<run, envVars, dirExists, disk, mappingFile, films, idx,
                 imageMapping, downloadedCount, totalImages, exitCode, histVars>>

\* fs.writeFileSync(MAPPING_FILE, JSON.stringify(imageMapping, null, 2))
WriteMapping ==
  /\ pc = "write"
  /\ mappingFile' = [exists |-> TRUE, content |-> imageMapping]
  /\ writes' = writes + 1
  /\ pc' = "summary"
  /\ UNCHANGED <<run, envVars, dirExists, disk, loopVars, http, promise, exitCode,
                 netRequests, conversions, summary, prevMapping>>

\* console.log(`Images downloaded: ${downloadedCount}/${totalImages}`); main
\* returns and the process ends with code 0
PrintSummary ==
  /\ pc = "summary"
  /\ summary' = [printed |-> TRUE, downloaded |-> downloadedCount, total |-> totalImages]
  /\ Exit(0)
  /\ UNCHANGED <<run, envVars, dirExists, disk, mappingFile, loopVars, http,
                 promise, netRequests, conversions, writes, prevMapping>>

\* npm run download-images once more: a new process, the same files on disk
StartRun ==
  /\ pc = "exited"
  /\ run < MaxRuns
  /\ (run + 1) * Len(listResponse.items) <= MaxWork
  /\ run' = run + 1
  /\ prevMapping' = IF writes > 0 THEN mappingFile ELSE NoFile
  /\ pc' = "load"
  /\ films' = <<>>
  /\ idx' = 0
  /\ role' = "poster"
  /\ imageMapping' = EmptyObject
  /\ downloadedCount' = 0
  /\ totalImages' = 0
  /\ http' = "idle"
  /\ promise' = "none"
  /\ exitCode' = -1
  /\ netRequests' = 0
  /\ conversions' = 0
  /\ writes' = 0
  /\ summary' = NoSummary
  /\ UNCHANGED <<envVars, dirExists, disk, mappingFile>>

Next ==
  \/ EnsureImagesDir
  \/ ProbeFound
  \/ ProbeMissing
  \/ FetchList
  \/ NextFilm
  \/ LoopDone
  \/ SkipImage
  \/ DownloadFile
  \/ Response200
  \/ ResponseNot200
  \/ RequestError
  \/ FileFinish
  \/ ResponseAborted
  \/ EventLoopDrained
  \/ DownloadResolved
  \/ DownloadRejected
  \/ ConvertSucceeds
  \/ ConvertFails
  \/ RecordImage
  \/ CatchImageError
  \/ WriteMapping
  \/ PrintSummary
  \/ StartRun

Spec == Init /\ [][Next]_vars

\* ------------------------------------------------------------ the claims
\* Vocabulary of the claims, stated apart from the actions above.
Succeeded(i, r) ==
  /\ HasUrl(films[i], r)
  /\ <<i, r>> \in DOMAIN outcome
  /\ outcome[<<i, r>>] = "ok"
KeyOf(i)      == IdKey(films[i].id)
ListKeys      == {KeyOf(i) : i \in 1..Len(films)}
LastWith(k)   == CHOOSE i \in 1..Len(films) :
                   KeyOf(i) = k /\ \A j \in (i + 1)..Len(films) : KeyOf(j) # k
DistinctIds   == \A i, j \in 1..Len(films) : KeyOf(i) = KeyOf(j) => i = j
WebpPath(k, r) ==
  IF r = "poster" THEN "/images/" \o k \o "-poster.webp"
  ELSE "/images/" \o k \o "-banner.webp"
HasField(m, k, r) == k \in DOMAIN m /\ r \in DOMAIN m[k]
FieldCount(m) == Cardinality({kr \in (DOMAIN m) \X Roles : kr[2] \in DOMAIN m[kr[1]]})
UrlCount      == Cardinality({ir \in (1..Len(films)) \X Roles : HasUrl(films[ir[1]], ir[2])})
Written       == writes = 1
written       == mappingFile.content

\* C1 as claimed: every film of the list whose poster (banner) was downloaded
\* and converted has poster (banner) = /images/{id}-poster.webp
\* (-banner.webp) under its id in the written mapping.
C1_EverySuccessIsMapped ==
  Written =>
    \A i \in 1..Len(films), r \in Roles :
      Succeeded(i, r) =>
        HasField(written, KeyOf(i), r) /\ written[KeyOf(i)][r] = WebpPath(KeyOf(i), r)

\* C1 as amended: the same, for every film whose id does not occur again
\* later in the list.
C1_LastSuccessIsMapped ==
  Written =>
    \A i \in 1..Len(films), r \in Roles :
      (Succeeded(i, r) /\ \A j \in (i + 1)..Len(films) : KeyOf(j) # KeyOf(i)) =>
        HasField(written, KeyOf(i), r) /\ written[KeyOf(i)][r] = WebpPath(KeyOf(i), r)

C1_Witness ==
  /\ Written
  /\ Len(films) = 2
  /\ Succeeded(1, "poster") /\ Succeeded(1, "banner")
  /\ KeyOf(2) # KeyOf(1)
  /\ written[KeyOf(1)]["poster"] = "/images/a-poster.webp"

\* C2 as claimed: once the encoder is found and the list is fetched, a failure
\* of one image stops nothing: when the process has ended, every image that has
\* a URL was attempted, the mapping was written and the exit code is 0.
C2_FailuresNeverStopTheRun ==
  (pc = "exited" /\ cwebp /\ ~ListThrows(listResponse)) =>
    /\ \A i \in 1..Len(films), r \in Roles :
         HasUrl(films[i], r) => <<i, r>> \in DOMAIN outcome
    /\ Written
    /\ exitCode = 0

\* C3 as claimed: when a download has failed and main's handler is reached,
\* the film's entry lacks the field and the temporary file is not on disk.
C3_FailedDownloadLeavesNoTemp ==
  (pc = "catch" /\ promise = "rejected") =>
    /\ ~HasField(imageMapping, filmId, role)
    /\ TempName(filmId, role) \notin DOMAIN disk

\* C4: a failed conversion leaves the completely downloaded temporary file on
\* disk and reaches main's handler with the mapping and the counter untouched;
\* the handler omits the field, keeps the counter and the file, and goes on to
\* the next image; a successful conversion has removed the temporary file
\* before the field is set and the counter incremented.
C4_Step ==
  /\ (pc = "convert" /\ pc' = "catch") =>
       /\ TempName(filmId, role) \in DOMAIN disk'
       /\ disk'[TempName(filmId, role)] = "complete"
       /\ imageMapping' = imageMapping
       /\ downloadedCount' = downloadedCount
  /\ (pc = "catch" /\ promise = "resolved") =>
       /\ TempName(filmId, role) \in DOMAIN disk'
       /\ ~HasField(imageMapping', filmId, role)
       /\ downloadedCount' = downloadedCount
       /\ pc' \in {"image", "loop"}
       /\ exitCode' = -1
  /\ (pc = "convert" /\ pc' = "converted") =>
       /\ TempName(filmId, role) \notin DOMAIN disk'
       /\ ~HasField(imageMapping', filmId, role)
  /\ (pc = "converted" /\ pc' # "converted") =>
       /\ TempName(filmId, role) \notin DOMAIN disk
       /\ HasField(imageMapping', filmId, role)
       /\ downloadedCount' = downloadedCount + 1
C4_ConversionFailureIsPerImage == [][C4_Step]_vars

C4_Witness ==
  /\ pc = "image" /\ role = "banner"
  /\ <<idx, "poster">> \in DOMAIN outcome /\ outcome[<<idx, "poster">>] = "convfail"
  /\ run = 1
  /\ TempName(filmId, "poster") \in DOMAIN disk
  /\ disk[TempName(filmId, "poster")] = "complete"
  /\ ~HasField(imageMapping, filmId, "poster")

\* C5: with the encoder missing the process ends with exit code 1 at the
\* probe: no network request, no conversion, no write of the mapping file.
C5_MissingEncoderAbortsFirst ==
  ~cwebp =>
    /\ pc \in {"load", "probe", "exited"}
    /\ pc = "exited" => exitCode = 1
    /\ netRequests = 0
    /\ conversions = 0
    /\ writes = 0
    /\ listResponse = NoResponse
    /\ mappingFile \in {NoFile, StaleMapping}

C5_Witness == ~cwebp /\ pc = "exited" /\ exitCode = 1 /\ run = 2 /\ dirExists

\* C6 as claimed: a list response that is not a success status carrying an
\* array of film records ends the run with a non-zero exit code and without
\* a write of the mapping file.
ExpectedListShape(resp) ==
  /\ resp.kind = "array"
  /\ resp.ok
  /\ \A i \in 1..Len(resp.items) : resp.items[i].id # NoId
C6_BadListFailsTheRun ==
  (listResponse # NoResponse /\ ~ExpectedListShape(listResponse)) =>
    /\ writes = 0
    /\ pc = "exited" => exitCode = 1

\* C7 as claimed: the promise of downloadFile is resolved only with a success
\* status and a complete file, is rejected on every transport failure, and is
\* never left pending when the process ends.
C7_DownloadSettles ==
  /\ (promise = "resolved" /\ pc = "download") =>
       disk[TempName(filmId, role)] = "complete"
  /\ http = "aborted" => promise = "rejected"
  /\ pc = "exited" => promise # "pending"

\* C8 as claimed: the printed count equals the number of poster fields plus
\* the number of banner fields of the written mapping, and is at most the
\* printed total, 2 x the number of films.
C8_CountEqualsFields ==
  summary.printed =>
    /\ summary.downloaded = FieldCount(written)
    /\ summary.downloaded <= summary.total
    /\ summary.total = 2 * Len(films)

\* C8 as amended: the count equals the number of fields when the ids of the
\* list are pairwise distinct; for every list it is at least the number of
\* fields and at most the printed total, 2 x the number of films.
C8_CountBoundsFields ==
  summary.printed =>
    /\ DistinctIds => summary.downloaded = FieldCount(written)
    /\ FieldCount(written) <= summary.downloaded
    /\ summary.downloaded <= summary.total
    /\ summary.total = 2 * Len(films)

C8_Witness ==
  /\ summary.printed
  /\ Len(films) = 2 /\ DistinctIds
  /\ summary.downloaded = 2 /\ summary.total = 4
  /\ \E i \in 1..2, r \in Roles :
       HasUrl(films[i], r) /\ outcome[<<i, r>>] \in {"status", "reqerror", "convfail"}

\* C9: the mapping an invocation writes is the one its film list and outcomes
\* determine, built from nothing, whatever mapping file and images were on
\* disk before; a second invocation with the same list and outcomes writes the
\* same mapping as the first, and requests every image that has a URL again.
ExpectedMapping ==
  [k \in ListKeys |->
     [r \in {q \in Roles : Succeeded(LastWith(k), q)} |-> WebpPath(k, r)]]
C9_RerunWritesTheSameMapping ==
  Written =>
    /\ written = ExpectedMapping
    /\ (run > 1 /\ prevMapping.exists) => mappingFile = prevMapping
    /\ run > 1 => prevMapping.exists
    /\ netRequests = 1 + UrlCount

C9_Witness ==
  /\ Written /\ run = 2 /\ prevMapping.exists
  /\ Len(films) = 2
  /\ Succeeded(1, "poster")
  /\ FinalName("z", "poster") \in DOMAIN disk
  /\ "z" \notin DOMAIN written

\* C10: the mapping file is written at most once per invocation, after the
\* loop has passed the last film with every image that has a URL processed;
\* its keys are exactly the ids of the list, films without images included,
\* and a field is there only for an image downloaded and converted.
C10_WrittenOnceAtTheEnd ==
  /\ writes <= 1
  /\ Written =>
       /\ pc \in {"summary", "exited"}
       /\ idx = Len(films)
       /\ \A i \in 1..Len(films), r \in Roles :
            HasUrl(films[i], r) => <<i, r>> \in DOMAIN outcome
       /\ DOMAIN written = ListKeys
       /\ \A k \in DOMAIN written, r \in Roles :
            r \in DOMAIN written[k] =>
              \E i \in 1..Len(films) : KeyOf(i) = k /\ Succeeded(i, r)

C10_Witness ==
  /\ Written
  /\ Len(films) = 2 /\ DistinctIds
  /\ ~films[1].image /\ ~films[1].movie_banner
  /\ films[2].image /\ outcome[<<2, "poster">>] = "status"
  /\ DOMAIN written[KeyOf(1)] = {} /\ DOMAIN written[KeyOf(2)] = {}


====
